---- MODULE Spec2Model ----
(***************************************************************************)
(* The adaptive cognitive testing engine of apps/api                       *)
(* (services/adaptive_testing.py, routers/cognitive.py).                   *)
(*                                                                         *)
(* Python floats are modelled in fixed point: every real quantity (theta,  *)
(* se, a, b, c, probabilities, information) is an integer number of        *)
(* thousandths.  math.exp is reached only through the logistic function,   *)
(* which is tabulated every 0.25 and interpolated linearly; math.erf is    *)
(* reached only through the normal CDF, tabulated the same way.            *)
(***************************************************************************)
EXTENDS Integers, Sequences, FiniteSets, TLC

(* ---------------- configuration (adaptive_testing.py:19-24) ------------ *)
MIN_ITEMS == 10
MAX_ITEMS == 30
TARGET_SE == 300
INITIAL_THETA == 0
INITIAL_SE == 1000

\* for _ in range(20)
MaxIterations == 20
\* age_months + 6 / age_months - 6
AgeWindow == 6

\* one unit of a Python float: 1.0 is Scale thousandths
Scale == 1000

(* ---------------- bounds of the model ---------------------------------- *)
\* rows of cognitive_assessments the model lets clients create
MaxSessions == 2
\* calls a client makes once it has left the script "start one assessment
\* and answer every offered item correctly"
MaxOffScript == 1
\* sizes of the item pools of the bank
MathBankSize == 31
LogicBankSize == 11
\* longest response history _estimate_ability is applied to on its own
MaxHistory == 3

(* ---------------- integer helpers -------------------------------------- *)
Abs(x) == IF x < 0 THEN 0 - x ELSE x

Max2(x, y) == IF x >= y THEN x ELSE y

Min2(x, y) == IF x <= y THEN x ELSE y

\* x / y rounded to the nearest thousandth-unit (y > 0)
RDiv(x, y) == (x + y \div 2) \div y

\* the element of a one-element set; The({F(x) : x \in {e}}) is "let x = e in
\* F(x)" with e evaluated once
The(S) == CHOOSE x \in S : TRUE

RECURSIVE ISqrtSearch(_, _, _)
ISqrtSearch(n, lo, hi) ==
    IF lo >= hi THEN lo
    ELSE LET mid == (lo + hi + 1) \div 2
         IN IF mid * mid <= n THEN ISqrtSearch(n, mid, hi)
            ELSE ISqrtSearch(n, lo, mid - 1)

\* floor(sqrt(n)) for 0 <= n < 2^30
ISqrt(n) == ISqrtSearch(n, 0, 32767)

(* ---------------- math.exp / math.erf ---------------------------------- *)
\* 1000 / (1 + exp(-z)) at z = 0, 0.25, ..., 8
LogisticTable ==
    << 500, 562, 622, 679, 731, 777, 818, 852, 881, 905, 924, 940, 953,
       963, 971, 977, 982, 986, 989, 991, 993, 995, 996, 997, 998, 998,
       998, 999, 999, 999, 999, 1000, 1000 >>

LogisticPos(z) ==
    IF z >= 8 * Scale THEN LogisticTable[33]
    ELSE LET k == z \div 250
             lo == LogisticTable[k + 1]
             hi == LogisticTable[k + 2]
         IN lo + RDiv((hi - lo) * (z - k * 250), 250)

\* 1 / (1 + math.exp(-z)) for 0 <= z <= 8, z in thousandths; a float keeps
\* the value strictly below 1, so the thousandths stay below 1000
LogisticValues == [z \in 0..(8 * Scale) |-> Min2(Scale - 1, LogisticPos(z))]

\* 1 / (1 + math.exp(-z)), strictly inside (0, 1)
Logistic(z) ==
    IF z >= 0 THEN LogisticValues[Min2(z, 8 * Scale)]
    ELSE Scale - LogisticValues[Min2(0 - z, 8 * Scale)]

\* 100000 * Phi(x) at x = 0, 0.25, ..., 3
NormalCdfTable ==
    << 50000, 59871, 69146, 77337, 84134, 89435, 93319, 95994, 97725,
       98778, 99379, 99702, 99865 >>

NormalCdfPos(x) ==
    IF x >= 3 * Scale THEN NormalCdfTable[13]
    ELSE LET k == x \div 250
             lo == NormalCdfTable[k + 1]
             hi == NormalCdfTable[k + 2]
         IN lo + RDiv((hi - lo) * (x - k * 250), 250)

\* _theta_to_percentile: 50 * (1 + erf(theta / sqrt(2))), in thousandths of
\* a percent
ThetaToPercentile(theta) ==
    IF theta >= 0 THEN NormalCdfPos(theta)
    ELSE 100 * Scale - NormalCdfPos(0 - theta)

\* int(x) of a non-negative float given in thousandths
IntPart(x) == x \div Scale

(* ---------------- the 3PL model ---------------------------------------- *)
\* _probability_correct
ProbabilityCorrect(theta, a, b, c) ==
    LET z == RDiv(a * (theta - b), Scale)
    IN c + RDiv((Scale - c) * Logistic(z), Scale)

\* _item_information once p is computed
InformationAt(p, a, c) ==
    LET q == Scale - p
        dp == IF c < Scale
              THEN RDiv(RDiv(a * (p - c), Scale) * (Scale - p), Scale - c)
              ELSE 0
    IN IF p > 0 /\ q > 0 THEN RDiv(dp * dp * Scale, p * q) ELSE 0

\* _item_information
ItemInformation(theta, a, b, c) ==
    InformationAt(ProbabilityCorrect(theta, a, b, c), a, c)

\* w = a * (p - c) / (p * (1 - c)) if c < 1 else a
ResponseWeight(p, a, c) ==
    IF c < Scale THEN RDiv(RDiv(a * (p - c), Scale - c) * Scale, p) ELSE a

\* what one response adds to <<numerator, denominator>>: w * (u - p) and
\* (w ** 2) * p * q
ResponseTerms(is_correct, p, w) ==
    LET u == IF is_correct THEN Scale ELSE 0
        q == Scale - p
    IN << RDiv(w * (u - p), Scale),
          RDiv(RDiv(w * w, Scale) * RDiv(p * q, Scale), Scale) >>

\* the body of "for i, response in enumerate(responses)" for one response
ResponseTermsAt(is_correct, item, theta) ==
    The({ResponseTerms(is_correct, p,
                       ResponseWeight(p, item.discrimination, item.guessing)) :
         p \in {ProbabilityCorrect(theta, item.discrimination, item.difficulty,
                                   item.guessing)}})

PairSum(x, y) == <<x[1] + y[1], x[2] + y[2]>>

\* the terms of responses lo..hi, summed (lo <= hi)
RECURSIVE SumTerms(_, _, _, _, _)
SumTerms(responses, items, theta, lo, hi) ==
    IF lo = hi THEN ResponseTermsAt(responses[lo], items[lo], theta)
    ELSE PairSum(SumTerms(responses, items, theta, lo, (lo + hi) \div 2),
                 SumTerms(responses, items, theta, (lo + hi) \div 2 + 1, hi))

\* the loop over the responses: <<numerator, denominator>> before the prior
LikelihoodSums(responses, items, theta) ==
    SumTerms(responses, items, theta, 1, Len(responses))

\* delta = numerator / denominator of one iteration, the N(0, 1) prior
\* included in both
Delta(theta, sums) == RDiv((sums[1] - theta) * Scale, sums[2] + Scale)

\* abs(denominator) < 0.0001: the loop breaks before theta moves
DenominatorVanishes(sums) == Abs(sums[2] + Scale) * 10000 < Scale

\* abs(delta) < 0.001, decided on the exact quotient
Converged(theta, sums) == Abs(sums[1] - theta) * 1000 < Abs(sums[2] + Scale)

\* the Newton-Raphson loop of _estimate_ability from iteration iter on, sums
\* being the sums of that iteration: break on a vanishing denominator, else
\* move theta by delta and break when delta is below 0.001
RECURSIVE NewtonRaphson(_, _, _, _, _)
NewtonRaphson(responses, items, theta, iter, sums) ==
    CASE iter >= MaxIterations \/ DenominatorVanishes(sums) -> theta
      [] iter + 1 >= MaxIterations \/ Converged(theta, sums) ->
            theta + Delta(theta, sums)
      [] OTHER ->
            NewtonRaphson(responses, items, theta + Delta(theta, sums), iter + 1,
                          LikelihoodSums(responses, items,
                                         theta + Delta(theta, sums)))

\* variant: max(-3.0, theta), the upper limit left out
ClampThetaBelowOnly(theta) == Max2(0 - 3 * Scale, theta)

\* max(-3.0, min(3.0, theta))
ClampTheta(theta) == Max2(0 - 3 * Scale, Min2(3 * Scale, theta))

\* sum(self._item_information(theta, ...) for item in items), over items
\* lo..hi (lo <= hi)
RECURSIVE TotalInformation(_, _, _, _)
TotalInformation(items, theta, lo, hi) ==
    IF lo = hi
    THEN ItemInformation(theta, items[lo].discrimination,
                         items[lo].difficulty, items[lo].guessing)
    ELSE TotalInformation(items, theta, lo, (lo + hi) \div 2)
         + TotalInformation(items, theta, (lo + hi) \div 2 + 1, hi)

\* 1 / math.sqrt(info) if info > 0 else INITIAL_SE
StandardError(info) ==
    IF info > 0 THEN RDiv(Scale * Scale, ISqrt(info * Scale)) ELSE INITIAL_SE

\* "Calculate standard error": the result of _estimate_ability once theta is
\* clamped
EstimateAt(items, theta) ==
    <<theta, StandardError(TotalInformation(items, theta, 1, Len(items)) + Scale)>>

\* _estimate_ability: responses is the list of is_correct flags, items the
\* list of item rows; the result is <<theta, se>>
EstimateAbility(responses, items, prior_theta) ==
    IF responses = << >> THEN <<prior_theta, INITIAL_SE>>
    ELSE EstimateAt(items,
                    ClampTheta(NewtonRaphson(responses, items, prior_theta, 0,
                                             LikelihoodSums(responses, items,
                                                            prior_theta))))

(* ---------------- collaborators: children and the item bank ------------ *)
Domains == <<"math", "logic", "verbal", "spatial", "memory">>

DomainSet == {Domains[i] : i \in 1..Len(Domains)}

\* rows of the children table; age_days is (now - date_of_birth).days
Children ==
    << [id |-> "c1", age_days |-> 1450],
       [id |-> "c2", age_days |-> 1990] >>

UnknownChild == "nobody"

ChildRows(child_id) == SelectSeq(Children, LAMBDA r : r.id = child_id)

\* (datetime.now().date() - dob).days // 30
AgeMonths(child_row) == child_row.age_days \div 30

\* a response or a correct answer: a scalar string or a list of strings
Scalar(s) == [is_list |-> FALSE, scalar |-> s, list |-> << >>]

List(l) == [is_list |-> TRUE, scalar |-> "", list |-> l]

Item(id, domain, a, b, c, lo, hi, active, answer) ==
    [id |-> id, domain |-> domain, discrimination |-> a, difficulty |-> b,
     guessing |-> c, min_age_months |-> lo, max_age_months |-> hi,
     active |-> active, correct_answer |-> answer]

\* the rows of cognitive_test_items, in the order a select returns them;
\* an item's id is its position
FixedItems(n) ==
    << Item(n + 1, "verbal", 1000, 0, 200, 50, 72, TRUE, Scalar("a")),
       Item(n + 2, "memory", 1500, 0 - 500, 250, 36, 59, TRUE,
            List(<<"a", "b">>)),
       Item(n + 3, "memory", 800, 500, 0, 36, 59, TRUE, Scalar("b")),
       Item(n + 4, "memory", 2000, 0, 0, 36, 59, FALSE, Scalar("a")),
       Item(n + 5, "memory", 2000, 0, 0, 50, 72, TRUE, Scalar("a")) >>

Bank ==
    [i \in 1..MathBankSize |->
        Item(i, "math", 1171, 3000, 0, 36, 59, TRUE, Scalar("a"))]
    \o [i \in 1..LogicBankSize |->
        Item(MathBankSize + i, "logic", 2500, 3000, 0, 36, 59, TRUE,
             Scalar("b"))]
    \o FixedItems(MathBankSize + LogicBankSize)

ItemIds == 1..Len(Bank)

\* an id no row of cognitive_test_items has
UnknownItem == Len(Bank) + 1

\* an id no row of cognitive_assessments has
UnknownAssessment == MaxSessions + 1

\* an optional value: << >> is None, <<v>> is v
None == << >>

Some(v) == <<v>>

InSeq(x, seq) == \E i \in 1..Len(seq) : seq[i] = x

SeqToSet(seq) == {seq[i] : i \in 1..Len(seq)}

(* ---------------- Item Selector ---------------------------------------- *)
\* the select on cognitive_test_items with the window [age - widen, age + widen]
QueryItems(domain, age_months, widen) ==
    SelectSeq(Bank, LAMBDA it :
        /\ it.domain = domain
        /\ it.active
        /\ it.min_age_months <= age_months + widen
        /\ it.max_age_months >= age_months - widen)

\* [item for item in result.data if item["id"] not in used_item_ids]
Unused(rows, used_item_ids) ==
    SelectSeq(rows, LAMBDA it : ~InSeq(it.id, used_item_ids))

\* variant: the retry with the wider window forgets the used ids
CandidatesRetryUnfiltered(age_months, domain, used_item_ids) ==
    LET exact == Unused(QueryItems(domain, age_months, 0), used_item_ids)
    IN IF exact = << >>
       THEN QueryItems(domain, age_months, AgeWindow)
       ELSE exact

\* variant: the wider window is used from the start
CandidatesAlwaysWidened(age_months, domain, used_item_ids) ==
    Unused(QueryItems(domain, age_months, AgeWindow), used_item_ids)

\* the candidate list of _select_next_item
Candidates(age_months, domain, used_item_ids) ==
    LET exact == Unused(QueryItems(domain, age_months, 0), used_item_ids)
    IN IF exact = << >>
       THEN Unused(QueryItems(domain, age_months, AgeWindow), used_item_ids)
       ELSE exact

\* variant: "if info >= max_info", a later item of equal information wins
BetterOrEqual(earlier, later) == IF later[2] >= earlier[2] THEN later ELSE earlier

\* "if info > max_info": the scan keeps what it has unless the later item
\* has strictly more information
Better(earlier, later) == IF later[2] > earlier[2] THEN later ELSE earlier

\* the loop "for item in items" over items lo..hi (lo <= hi), folded in
\* halves: <<best_item, max_info>> after it
RECURSIVE BestScan(_, _, _, _)
BestScan(items, theta, lo, hi) ==
    IF lo = hi
    THEN <<Some(items[lo]),
           ItemInformation(theta, items[lo].discrimination,
                           items[lo].difficulty, items[lo].guessing)>>
    ELSE Better(BestScan(items, theta, lo, (lo + hi) \div 2),
                BestScan(items, theta, (lo + hi) \div 2 + 1, hi))

\* _select_next_item: None or Some(item row); the scan starts from
\* best_item = None, max_info = -1
SelectNextItem(theta, age_months, domain, used_item_ids) ==
    LET items == Candidates(age_months, domain, used_item_ids)
    IN IF items = << >> THEN None
       ELSE Better(<<None, 0 - 1>>, BestScan(items, theta, 1, Len(items)))[1]

\* next_item / first_item as returned to the client: the item's id
OfferedId(selection) ==
    IF selection = None THEN None ELSE Some(selection[1].id)

(* ---------------- correctness of a response ---------------------------- *)
\* variant: the lists are compared as lists
IsCorrectOrdered(response, correct_answer) ==
    IF response.is_list
    THEN IF correct_answer.is_list
         THEN response.list = correct_answer.list
         ELSE FALSE
    ELSE /\ ~correct_answer.is_list
         /\ response.scalar = correct_answer.scalar

\* "Check correctness" in submit_response
IsCorrect(response, correct_answer) ==
    IF response.is_list
    THEN IF correct_answer.is_list
         THEN SeqToSet(response.list) = SeqToSet(correct_answer.list)
         ELSE FALSE
    ELSE /\ ~correct_answer.is_list
         /\ response.scalar = correct_answer.scalar

\* response if isinstance(response, list) else [response]
StoredResponse(response) ==
    IF response.is_list THEN response.list ELSE <<response.scalar>>

(* ---------------- Profile Aggregator ----------------------------------- *)
NoScores == [d \in DomainSet |-> None]

\* the row _update_cognitive_profile inserts for a child without a profile
NewProfile(child_id, domain, score, percentile) ==
    [child_id |-> child_id,
     score |-> [NoScores EXCEPT ![domain] = Some(score)],
     percentile |-> [NoScores EXCEPT ![domain] = Some(percentile)],
     composite_score |-> None, composite_percentile |-> None,
     strengths |-> << >>, growth_areas |-> << >>]

\* scores = {domain: score for the domains with a score}, as the list of
\* <<domain, score>> pairs in the order of the domains list
RECURSIVE CollectScores(_, _)
CollectScores(profile, i) ==
    IF i > Len(Domains) THEN << >>
    ELSE LET d == Domains[i]
             rest == CollectScores(profile, i + 1)
         IN IF profile.score[d] # None
            THEN <<(<<d, profile.score[d][1]>>)>> \o rest
            ELSE rest

\* pair put into a list sorted by score, highest first, after the pairs of
\* an equal score (sorted(..., reverse=True) is stable)
RECURSIVE InsertDescending(_, _)
InsertDescending(pair, sorted) ==
    IF sorted = << >> THEN <<pair>>
    ELSE IF sorted[1][2] >= pair[2]
         THEN <<sorted[1]>> \o InsertDescending(pair, Tail(sorted))
         ELSE <<pair>> \o sorted

RECURSIVE SortDescending(_, _)
SortDescending(pairs, i) ==
    IF i = 0 THEN << >>
    ELSE InsertDescending(pairs[i], SortDescending(pairs, i - 1))

RECURSIVE SumScores(_, _)
SumScores(pairs, i) ==
    IF i > Len(pairs) THEN 0 ELSE pairs[i][2] + SumScores(pairs, i + 1)

\* variant: seq[-3:]
LastThree(seq) == SubSeq(seq, Max2(1, Len(seq) - 2), Len(seq))

\* seq[-2:]
LastTwo(seq) == SubSeq(seq, Max2(1, Len(seq) - 1), Len(seq))

\* variant: seq[:3]
FirstThree(seq) == SubSeq(seq, 1, Min2(3, Len(seq)))

\* seq[:2]
FirstTwo(seq) == SubSeq(seq, 1, Min2(2, Len(seq)))

DomainsOf(pairs) == [i \in 1..Len(pairs) |-> pairs[i][1]]

\* variant: growth_areas taken with d[1] <= composite_score
AggregatesNonStrict(scores) ==
    LET composite_score == RDiv(SumScores(scores, 1), Len(scores))
        sorted_domains == SortDescending(scores, Len(scores))
    IN [composite_score |-> composite_score,
        composite_percentile |-> IntPart(ThetaToPercentile(composite_score)),
        strengths |->
            IF Len(scores) >= 2
            THEN DomainsOf(SelectSeq(FirstTwo(sorted_domains),
                                     LAMBDA d : d[2] > 0))
            ELSE << >>,
        growth_areas |->
            IF Len(scores) >= 2
            THEN DomainsOf(SelectSeq(LastTwo(sorted_domains),
                                     LAMBDA d : d[2] * Len(scores)
                                                    <= SumScores(scores, 1)))
            ELSE << >>]

\* the aggregates _recalculate_profile_aggregates writes, from the scores
\* dict of a profile; "d[1] < composite_score" is decided on the exact mean,
\* the composite that is stored is rounded to the thousandth
Aggregates(scores) ==
    LET composite_score == RDiv(SumScores(scores, 1), Len(scores))
        sorted_domains == SortDescending(scores, Len(scores))
    IN [composite_score |-> composite_score,
        composite_percentile |-> IntPart(ThetaToPercentile(composite_score)),
        strengths |->
            IF Len(scores) >= 2
            THEN DomainsOf(SelectSeq(FirstTwo(sorted_domains),
                                     LAMBDA d : d[2] > 0))
            ELSE << >>,
        growth_areas |->
            IF Len(scores) >= 2
            THEN DomainsOf(SelectSeq(LastTwo(sorted_domains),
                                     LAMBDA d : d[2] * Len(scores)
                                                    < SumScores(scores, 1)))
            ELSE << >>]

\* _recalculate_profile_aggregates on the cognitive_profiles table
RecalculateProfileAggregates(table, child_id) ==
    LET rows == SelectSeq(table, LAMBDA r : r.child_id = child_id)
    IN IF rows = << >> THEN table
       ELSE The({IF scores = << >> THEN table
                 ELSE The({[i \in 1..Len(table) |->
                              IF table[i].child_id = child_id
                              THEN [table[i] EXCEPT
                                      !.composite_score = Some(agg.composite_score),
                                      !.composite_percentile =
                                          Some(agg.composite_percentile),
                                      !.strengths = agg.strengths,
                                      !.growth_areas = agg.growth_areas]
                              ELSE table[i]] :
                           agg \in {Aggregates(scores)}}) :
                 scores \in {CollectScores(rows[1], 1)}})

\* profile_result.data of _update_cognitive_profile is not empty
HasProfile(table, child_id) ==
    \E i \in 1..Len(table) : table[i].child_id = child_id

\* "Update existing profile": the update of the rows with the child_id
UpdateProfileRows(table, child_id, domain, score, percentile) ==
    [i \in 1..Len(table) |->
        IF table[i].child_id = child_id
        THEN [table[i] EXCEPT !.score[domain] = Some(score),
                              !.percentile[domain] = Some(percentile)]
        ELSE table[i]]

\* "Create new profile": the insert
InsertProfileRow(table, child_id, domain, score, percentile) ==
    Append(table, NewProfile(child_id, domain, score, percentile))

\* variant: an existing profile is replaced by a new row of the one domain
UpsertProfileReplacing(table, child_id, domain, score, percentile) ==
    IF HasProfile(table, child_id)
    THEN [i \in 1..Len(table) |->
             IF table[i].child_id = child_id
             THEN NewProfile(child_id, domain, score, percentile)
             ELSE table[i]]
    ELSE InsertProfileRow(table, child_id, domain, score, percentile)

\* the upsert of _update_cognitive_profile, before the recalculation
UpsertProfile(table, child_id, domain, score, percentile) ==
    IF HasProfile(table, child_id)
    THEN UpdateProfileRows(table, child_id, domain, score, percentile)
    ELSE InsertProfileRow(table, child_id, domain, score, percentile)

\* _update_cognitive_profile on the cognitive_profiles table
UpdateCognitiveProfile(table, child_id, domain, score, percentile) ==
    The({RecalculateProfileAggregates(upserted, child_id) :
         upserted \in {UpsertProfile(table, child_id, domain, score, percentile)}})

(* ---------------- state ------------------------------------------------ *)
VARIABLES
    assessments,   \* the rows of cognitive_assessments; a row's id is its position
    responses,     \* the rows of cognitive_responses, in insertion order
    profiles,      \* the rows of cognitive_profiles, in insertion order
    ret,           \* the outcome of the last call, as its caller sees it
    offered,       \* per assessment: the item last returned as first/next item
    completions,   \* per assessment: how often _complete_assessment ran for it
    offScript,     \* calls made since the client left the script
    calls          \* per worker: the submit_response call it is executing

vars == <<assessments, responses, profiles, ret, offered, completions,
          offScript, calls>>

tables == <<assessments, responses, profiles>>

NoCall ==
    [op |-> "none", status |-> "none", assessment_id |-> UnknownAssessment,
     item_id |-> UnknownItem, response |-> Scalar(""), is_correct |-> FALSE,
     new_theta |-> INITIAL_THETA, new_se |-> INITIAL_SE, is_complete |-> FALSE,
     next_item |-> None, stopping_reason |-> None, item_sequence |-> 0]

\* what submit_response has computed once it has read its inputs
NoPlan ==
    [is_correct |-> FALSE, theta_before |-> INITIAL_THETA,
     se_before |-> INITIAL_SE, theta_after |-> INITIAL_THETA,
     se_after |-> INITIAL_SE, item_sequence |-> 0, next_item |-> None,
     stopping_reason |-> None]

\* the processes that serve requests on the one database
Workers == {"w1", "w2"}

\* a worker that is executing no call
Idle ==
    [pc |-> "idle", assessment_id |-> UnknownAssessment, item_id |-> UnknownItem,
     response |-> Scalar(""), plan |-> NoPlan]

AllIdle == \A w \in Workers : calls[w].pc = "idle"

Init ==
    /\ assessments = << >>
    /\ responses = << >>
    /\ profiles = << >>
    /\ ret = NoCall
    /\ offered = << >>
    /\ completions = << >>
    /\ offScript = 0
    /\ calls = [w \in Workers |-> Idle]

(* ---------------- Session Controller: the tables ----------------------- *)
\* variant: the two initial values are swapped
NewAssessmentSwapped(id, child_id, domain) ==
    [id |-> id, child_id |-> child_id, domain |-> domain,
     ability_estimate |-> INITIAL_SE, standard_error |-> INITIAL_THETA,
     items_administered |-> 0, status |-> "in_progress",
     stopping_reason |-> None, raw_score |-> None, percentile |-> None]

\* insert_data of start_assessment, with the id the insert returns
NewAssessment(id, child_id, domain) ==
    [id |-> id, child_id |-> child_id, domain |-> domain,
     ability_estimate |-> INITIAL_THETA, standard_error |-> INITIAL_SE,
     items_administered |-> 0, status |-> "in_progress",
     stopping_reason |-> None, raw_score |-> None, percentile |-> None]

\* select ... eq("assessment_id", id).order("item_sequence")
PreviousResponses(table, assessment_id) ==
    SortSeq(SelectSeq(table, LAMBDA r : r.assessment_id = assessment_id),
            LAMBDA r1, r2 : r1.item_sequence < r2.item_sequence)

\* variant: the precision is tested before the item count
StoppingRulePrecisionFirst(item_sequence, se_after) ==
    IF item_sequence >= MIN_ITEMS /\ se_after < TARGET_SE THEN Some("min_se")
    ELSE IF item_sequence >= MAX_ITEMS THEN Some("max_items")
         ELSE None

\* variant: the precision stops the test whatever the item count
StoppingRuleNoMinimum(item_sequence, se_after) ==
    IF item_sequence >= MAX_ITEMS THEN Some("max_items")
    ELSE IF se_after < TARGET_SE THEN Some("min_se")
         ELSE None

\* if item_sequence >= MAX_ITEMS ... elif item_sequence >= MIN_ITEMS and ...
StoppingRule(item_sequence, se_after) ==
    IF item_sequence >= MAX_ITEMS THEN Some("max_items")
    ELSE IF item_sequence >= MIN_ITEMS /\ se_after < TARGET_SE
         THEN Some("min_se")
         ELSE None

\* variant: the item just answered is left out of the used ids
UsedIdsBefore(previous_responses, item_id) ==
    [i \in 1..Len(previous_responses) |-> previous_responses[i].item_id]

\* used_ids = [r["item_id"] for r in previous_responses] + [item_id]
UsedIds(previous_responses, item_id) ==
    [i \in 1..Len(previous_responses) |-> previous_responses[i].item_id]
    \o <<item_id>>

\* variant: the sequence number counts the previous responses only
ItemSequenceFromZero(previous_responses) == Len(previous_responses)

\* item_sequence = len(previous_responses) + 1
ItemSequence(previous_responses) == Len(previous_responses) + 1

\* all_responses / all_items: the history with the current response added
AllResponses(previous_responses, is_correct) ==
    [i \in 1..Len(previous_responses) |-> previous_responses[i].is_correct]
    \o <<is_correct>>

AllItems(previous_responses, item) ==
    [i \in 1..Len(previous_responses) |-> Bank[previous_responses[i].item_id]]
    \o <<item>>

\* variant: the next item is selected whether or not a stopping rule fired
DecideSelectsAlways(assessment, item, is_correct, previous_responses, estimate) ==
    LET age_months == AgeMonths(ChildRows(assessment.child_id)[1])
        item_sequence == ItemSequence(previous_responses)
    IN The({[is_correct |-> is_correct,
             theta_before |-> assessment.ability_estimate,
             se_before |-> assessment.standard_error,
             theta_after |-> estimate[1], se_after |-> estimate[2],
             item_sequence |-> item_sequence,
             next_item |-> OfferedId(selection),
             stopping_reason |->
                 IF rule # None THEN rule
                 ELSE IF selection = None THEN Some("no_items") ELSE None] :
            rule \in {StoppingRule(item_sequence, estimate[2])},
            selection \in
              {SelectNextItem(estimate[1], age_months, assessment.domain,
                              UsedIds(previous_responses, item.id))}})

\* "Check stopping rules" and the selection of the next item, once the
\* ability is re-estimated: the plan of the writes and of the result
Decide(assessment, item, is_correct, previous_responses, estimate) ==
    LET age_months == AgeMonths(ChildRows(assessment.child_id)[1])
        item_sequence == ItemSequence(previous_responses)
    IN The({[is_correct |-> is_correct,
             theta_before |-> assessment.ability_estimate,
             se_before |-> assessment.standard_error,
             theta_after |-> estimate[1], se_after |-> estimate[2],
             item_sequence |-> item_sequence,
             next_item |-> OfferedId(selection),
             stopping_reason |->
                 IF rule # None THEN rule
                 ELSE IF selection = None THEN Some("no_items") ELSE None] :
            rule \in {StoppingRule(item_sequence, estimate[2])},
            selection \in
              {IF StoppingRule(item_sequence, estimate[2]) = None
               THEN SelectNextItem(estimate[1], age_months, assessment.domain,
                                   UsedIds(previous_responses, item.id))
               ELSE None}})

\* everything submit_response computes from what it read: the assessment
\* row, the item row, the response and the previous responses
SubmitPlan(assessment, item, response, previous_responses) ==
    The({The({Decide(assessment, item, is_correct, previous_responses, estimate) :
              estimate \in
                {EstimateAbility(all_responses, all_items, theta_before) :
                 all_responses \in {AllResponses(previous_responses, is_correct)},
                 all_items \in {AllItems(previous_responses, item)},
                 theta_before \in {assessment.ability_estimate}}}) :
         is_correct \in {IsCorrect(response, item.correct_answer)}})

\* the row "Save response" inserts
ResponseRow(assessment_id, item_id, response, plan) ==
    [assessment_id |-> assessment_id, item_id |-> item_id,
     response |-> StoredResponse(response), is_correct |-> plan.is_correct,
     theta_before |-> plan.theta_before, theta_after |-> plan.theta_after,
     se_before |-> plan.se_before, se_after |-> plan.se_after,
     item_sequence |-> plan.item_sequence]

\* variant: the update is keyed on the child and the domain of the session
UpdateAssessmentOfChild(table, assessment_id, plan) ==
    [i \in 1..Len(table) |->
        IF /\ table[i].child_id = table[assessment_id].child_id
           /\ table[i].domain = table[assessment_id].domain
        THEN [table[i] EXCEPT !.ability_estimate = plan.theta_after,
                              !.standard_error = plan.se_after,
                              !.items_administered = plan.item_sequence]
        ELSE table[i]]

\* "Update assessment": the update of ability_estimate, standard_error and
\* items_administered
UpdateAssessment(table, assessment_id, plan) ==
    [table EXCEPT ![assessment_id] =
        [@ EXCEPT !.ability_estimate = plan.theta_after,
                  !.standard_error = plan.se_after,
                  !.items_administered = plan.item_sequence]]

\* raw_score = (theta + 3) / 6 * 100
RawScore(theta) == RDiv((theta + 3 * Scale) * 100, 6)

\* percentile = int(self._theta_to_percentile(theta))
Percentile(theta) == IntPart(ThetaToPercentile(theta))

\* variant: the update of _complete_assessment leaves the status out
CompleteAssessmentKeepsStatus(table, assessment_id, theta, stopping_reason) ==
    [table EXCEPT ![assessment_id] =
        [@ EXCEPT !.stopping_reason = Some(stopping_reason),
                  !.raw_score = Some(RawScore(theta)),
                  !.percentile = Some(Percentile(theta))]]

\* the update of _complete_assessment
CompleteAssessment(table, assessment_id, theta, stopping_reason) ==
    [table EXCEPT ![assessment_id] =
        [@ EXCEPT !.status = "completed",
                  !.stopping_reason = Some(stopping_reason),
                  !.raw_score = Some(RawScore(theta)),
                  !.percentile = Some(Percentile(theta))]]

(* ---------------- the clients of the model ----------------------------- *)
ClientChildren == {Children[i].id : i \in 1..Len(Children)} \cup {UnknownChild}

\* the responses clients send: scalars, a list that holds the elements of a
\* list answer in another order and with a duplicate, and a one-element list
ClientResponses ==
    {Scalar("a"), Scalar("b"), List(<<"b", "a", "b">>), List(<<"a">>)}

ClientAssessments == (1..Len(assessments)) \cup {UnknownAssessment}

\* an item of another domain than the long pools
OtherItem == MathBankSize + LogicBankSize + 1

\* the item ids a client submits for an assessment: the item it was offered,
\* the first item it already answered, an item it was never offered and an
\* id that does not exist
ClientItems(assessment_id) ==
    IF assessment_id \notin 1..Len(assessments) THEN {OtherItem}
    ELSE UNION {SeqToSet(offered[assessment_id])
                \cup (IF previous = << >> THEN {} ELSE {previous[1].item_id})
                \cup {OtherItem, UnknownItem} :
                previous \in {PreviousResponses(responses, assessment_id)}}

\* the script: start one assessment, then answer every offered item correctly
ScriptedStart == assessments = << >> /\ offScript = 0

ScriptedSubmit(assessment_id, item_id, response) ==
    /\ offScript = 0
    /\ assessment_id \in 1..Len(assessments)
    /\ offered[assessment_id] = Some(item_id)
    /\ IsCorrect(response, Bank[item_id].correct_answer)

\* a call off the script is counted, and at most MaxOffScript are made
Charge(scripted) ==
    /\ scripted \/ offScript < MaxOffScript
    /\ offScript' = IF scripted THEN offScript ELSE offScript + 1

(* ---------------- Session Controller: the operations ------------------- *)
\* what the caller sees of a call that raised ValueError
Failure(op, status, assessment_id, item_id) ==
    [NoCall EXCEPT !.op = op, !.status = status,
                   !.assessment_id = assessment_id, !.item_id = item_id]

\* variant: the assessment row is inserted before the child is looked up
StartInsertFirst(child_id, domain) ==
    /\ Charge(ScriptedStart)
    /\ UNCHANGED calls
    /\ Len(assessments) < MaxSessions
    /\ assessments' = Append(assessments,
                             NewAssessment(Len(assessments) + 1, child_id, domain))
    /\ completions' = Append(completions, 0)
    /\ UNCHANGED <<responses, profiles>>
    /\ IF ChildRows(child_id) = << >>
       THEN /\ ret' = Failure("start", "NotFound", UnknownAssessment, UnknownItem)
            /\ offered' = Append(offered, None)
       ELSE \E first_item \in {SelectNextItem(INITIAL_THETA,
                                              AgeMonths(ChildRows(child_id)[1]),
                                              domain, << >>)} :
                /\ offered' = Append(offered, OfferedId(first_item))
                /\ ret' = [NoCall EXCEPT !.op = "start", !.status = "ok",
                                         !.assessment_id = Len(assessments) + 1,
                                         !.next_item = OfferedId(first_item)]

\* start_assessment
Start(child_id, domain) ==
    /\ Charge(ScriptedStart)
    /\ UNCHANGED calls
    /\ IF ChildRows(child_id) = << >>
       THEN /\ ret' = Failure("start", "NotFound", UnknownAssessment, UnknownItem)
            /\ UNCHANGED <<tables, offered, completions>>
       ELSE LET id == Len(assessments) + 1
                age_months == AgeMonths(ChildRows(child_id)[1])
            IN /\ id <= MaxSessions
               /\ assessments' = Append(assessments, NewAssessment(id, child_id, domain))
               /\ \E first_item \in {SelectNextItem(INITIAL_THETA, age_months,
                                                   domain, << >>)} :
                      /\ offered' = Append(offered, OfferedId(first_item))
                      /\ ret' = [NoCall EXCEPT !.op = "start", !.status = "ok",
                                               !.assessment_id = id,
                                               !.next_item = OfferedId(first_item)]
               /\ completions' = Append(completions, 0)
               /\ UNCHANGED <<responses, profiles>>

\* the tables after the writes of submit_response and, when the plan stops
\* the test, of _complete_assessment and _update_cognitive_profile
AssessmentsAfter(table, assessment_id, plan) ==
    IF plan.stopping_reason # None
    THEN CompleteAssessment(UpdateAssessment(table, assessment_id, plan),
                            assessment_id, plan.theta_after,
                            plan.stopping_reason[1])
    ELSE UpdateAssessment(table, assessment_id, plan)

ProfilesAfter(table, assessment, plan) ==
    IF plan.stopping_reason # None
    THEN UpdateCognitiveProfile(table, assessment.child_id, assessment.domain,
                                plan.theta_after, Percentile(plan.theta_after))
    ELSE table

\* SubmitCognitiveResponseResponse, with the call's arguments
SubmitResult(assessment_id, item_id, response, plan) ==
    [op |-> "submit", status |-> "ok", assessment_id |-> assessment_id,
     item_id |-> item_id, response |-> response, is_correct |-> plan.is_correct,
     new_theta |-> plan.theta_after, new_se |-> plan.se_after,
     is_complete |-> plan.stopping_reason # None,
     next_item |-> plan.next_item, stopping_reason |-> plan.stopping_reason,
     item_sequence |-> plan.item_sequence]

\* submit_response, from the router's call to its return
SubmitCall(assessment_id, item_id, response) ==
    /\ UNCHANGED calls
    /\ IF assessment_id \notin 1..Len(assessments) \/ item_id \notin ItemIds
       THEN /\ ret' = Failure("submit", "NotFound", assessment_id, item_id)
            /\ UNCHANGED <<tables, offered, completions>>
       ELSE \E assessment \in {assessments[assessment_id]},
               previous_responses \in {PreviousResponses(responses, assessment_id)} :
            \E plan \in {SubmitPlan(assessment, Bank[item_id], response,
                                    previous_responses)} :
               /\ responses' = Append(responses,
                                      ResponseRow(assessment_id, item_id, response, plan))
               /\ assessments' = AssessmentsAfter(assessments, assessment_id, plan)
               /\ profiles' = ProfilesAfter(profiles, assessment, plan)
               /\ completions' =
                      [completions EXCEPT ![assessment_id] =
                          IF plan.stopping_reason # None THEN @ + 1 ELSE @]
               /\ offered' = [offered EXCEPT ![assessment_id] = plan.next_item]
               /\ ret' = SubmitResult(assessment_id, item_id, response, plan)

\* a call of submit_response a client makes
Submit(assessment_id, item_id, response) ==
    /\ Charge(ScriptedSubmit(assessment_id, item_id, response))
    /\ SubmitCall(assessment_id, item_id, response)

Next ==
    \/ \E child_id \in ClientChildren, domain \in DomainSet :
           Start(child_id, domain)
    \/ \E assessment_id \in ClientAssessments :
           \E item_id \in ClientItems(assessment_id),
              response \in ClientResponses :
               Submit(assessment_id, item_id, response)

Spec == Init /\ [][Next]_vars

(* ---------------- submit_response, one storage call at a time ---------- *)
\* the reads of submit_response (assessment, child, item, previous responses)
\* and everything it computes from them before its first write
Load(w, assessment_id, item_id, response) ==
    /\ calls[w].pc = "idle"
    /\ Charge(ScriptedSubmit(assessment_id, item_id, response) /\ AllIdle)
    /\ IF assessment_id \notin 1..Len(assessments) \/ item_id \notin ItemIds
       THEN /\ ret' = Failure("submit", "NotFound", assessment_id, item_id)
            /\ UNCHANGED <<tables, offered, completions, calls>>
       ELSE \E plan \in {SubmitPlan(assessments[assessment_id], Bank[item_id],
                                    response,
                                    PreviousResponses(responses, assessment_id))} :
               /\ calls' = [calls EXCEPT ![w] =
                               [pc |-> "insert", assessment_id |-> assessment_id,
                                item_id |-> item_id,
                                response |-> response,
                                plan |-> plan]]
               /\ UNCHANGED <<tables, ret, offered, completions>>

\* "Save response": the insert into cognitive_responses
Insert(w) ==
    /\ calls[w].pc = "insert"
    /\ responses' = Append(responses,
                           ResponseRow(calls[w].assessment_id, calls[w].item_id,
                                       calls[w].response, calls[w].plan))
    /\ calls' = [calls EXCEPT ![w].pc = "update"]
    /\ UNCHANGED <<assessments, profiles, ret, offered, completions, offScript>>

\* the return of submit_response to its caller
Return(w) ==
    /\ ret' = SubmitResult(calls[w].assessment_id, calls[w].item_id,
                           calls[w].response, calls[w].plan)
    /\ offered' = [offered EXCEPT ![calls[w].assessment_id] = calls[w].plan.next_item]
    /\ calls' = [calls EXCEPT ![w] = Idle]

\* "Update assessment": the update of cognitive_assessments; the call returns
\* here unless the test stops
Update(w) ==
    /\ calls[w].pc = "update"
    /\ assessments' = UpdateAssessment(assessments, calls[w].assessment_id,
                                       calls[w].plan)
    /\ IF calls[w].plan.stopping_reason = None
       THEN Return(w)
       ELSE /\ calls' = [calls EXCEPT ![w].pc = "complete"]
            /\ UNCHANGED <<ret, offered>>
    /\ UNCHANGED <<responses, profiles, completions, offScript>>

\* _complete_assessment, then the return
Complete(w) ==
    /\ calls[w].pc = "complete"
    /\ assessments' = CompleteAssessment(assessments, calls[w].assessment_id,
                                         calls[w].plan.theta_after,
                                         calls[w].plan.stopping_reason[1])
    /\ profiles' = ProfilesAfter(profiles, assessments[calls[w].assessment_id],
                                 calls[w].plan)
    /\ completions' = [completions EXCEPT ![calls[w].assessment_id] = @ + 1]
    /\ Return(w)
    /\ UNCHANGED <<responses, offScript>>

\* two workers serve submit_response calls on the same tables
NextConc ==
    \/ \E child_id \in ClientChildren, domain \in DomainSet :
           Start(child_id, domain)
    \/ \E w \in Workers, assessment_id \in ClientAssessments :
           \E item_id \in ClientItems(assessment_id),
              response \in ClientResponses :
               Load(w, assessment_id, item_id, response)
    \/ \E w \in Workers : Insert(w)
    \/ \E w \in Workers : Update(w)
    \/ \E w \in Workers : Complete(w)

SpecConc == Init /\ [][NextConc]_vars

\* the storage call a worker is about to make raises: the exception leaves
\* submit_response, the router answers 500, and what the call wrote before
\* stays written
StorageFailure(w) ==
    /\ calls[w].pc \in {"insert", "update", "complete"}
    /\ Charge(FALSE)
    /\ ret' = Failure("submit", "ServerError", calls[w].assessment_id,
                      calls[w].item_id)
    /\ calls' = [calls EXCEPT ![w] = Idle]
    /\ UNCHANGED <<tables, offered, completions>>

\* one worker serves the calls, and its storage calls may fail
NextFail ==
    \/ \E child_id \in ClientChildren, domain \in DomainSet :
           Start(child_id, domain)
    \/ \E assessment_id \in ClientAssessments :
           \E item_id \in ClientItems(assessment_id),
              response \in ClientResponses :
               Load("w1", assessment_id, item_id, response)
    \/ Insert("w1")
    \/ Update("w1")
    \/ Complete("w1")
    \/ StorageFailure("w1")

SpecFail == Init /\ [][NextFail]_vars

(* ---------------- clients that answer what they are offered ------------ *)
\* the client of a session answers the item the session was last offered,
\* correctly or not; an incorrect answer counts as a call off the script
Answer(assessment_id) ==
    /\ assessment_id \in 1..Len(assessments)
    /\ offered[assessment_id] # None
    /\ \E response \in ClientResponses :
           /\ Charge(IsCorrect(response,
                               Bank[offered[assessment_id][1]].correct_answer))
           /\ SubmitCall(assessment_id, offered[assessment_id][1], response)

\* no session has an item outstanding
AllAnswered == \A a \in 1..Len(assessments) : offered[a] = None

\* the sessions are run one after the other
NextLive ==
    \/ \E child_id \in ClientChildren, domain \in DomainSet :
           AllAnswered /\ Start(child_id, domain)
    \/ \E assessment_id \in 1..MaxSessions : Answer(assessment_id)

\* Answer(assessment_id) can be taken: the session has an item outstanding
\* (ClientResponses holds a correct answer to every item of the bank, and a
\* correct answer is never refused)
CanAnswer(assessment_id) ==
    /\ assessment_id \in 1..Len(assessments)
    /\ offered[assessment_id] # None

\* every client keeps answering while its session has an item outstanding:
\* WF_vars(Answer(assessment_id)), with ENABLED <<Answer(assessment_id)>>_vars
\* written out as CanAnswer(assessment_id)
SpecLive ==
    /\ Init
    /\ [][NextLive]_vars
    /\ \A assessment_id \in 1..MaxSessions :
           \/ []<>(~CanAnswer(assessment_id))
           \/ []<><<Answer(assessment_id)>>_vars

(* ---------------- two sessions of one child complete, step by step ------ *)
\* the child of the two sessions, and the domains they are started in
RaceChild == Children[2].id

RaceDomains == {"verbal", "memory"}

\* what start_assessment returns as first item to RaceChild in a domain
FirstOffered(domain) ==
    OfferedId(SelectNextItem(INITIAL_THETA, AgeMonths(ChildRows(RaceChild)[1]),
                             domain, << >>))

\* the state after start_assessment was called for RaceChild in two
\* different domains
InitRace ==
    \E first \in RaceDomains :
        \E second \in RaceDomains \ {first} :
            /\ assessments = <<NewAssessment(1, RaceChild, first),
                               NewAssessment(2, RaceChild, second)>>
            /\ responses = << >>
            /\ profiles = << >>
            /\ ret = [NoCall EXCEPT !.op = "start", !.status = "ok",
                                    !.assessment_id = 2,
                                    !.next_item = FirstOffered(second)]
            /\ offered = <<FirstOffered(first), FirstOffered(second)>>
            /\ completions = <<0, 0>>
            /\ offScript = 1
            /\ calls = [w \in Workers |-> Idle]

\* worker w takes a request on /respond that answers the item last offered
\* in a session; the client of a session sends one request at a time
Take(w, assessment_id) ==
    /\ calls[w].pc = "idle"
    /\ assessment_id \in 1..Len(assessments)
    /\ offered[assessment_id] # None
    /\ \A v \in Workers : calls[v].assessment_id # assessment_id
    /\ \E response \in ClientResponses :
           \E plan \in {SubmitPlan(assessments[assessment_id],
                                    Bank[offered[assessment_id][1]], response,
                                    PreviousResponses(responses, assessment_id))} :
               calls' = [calls EXCEPT ![w] =
                            [pc |-> "insert", assessment_id |-> assessment_id,
                             item_id |-> offered[assessment_id][1],
                             response |-> response, plan |-> plan]]
    /\ UNCHANGED <<tables, ret, offered, completions, offScript>>

\* _complete_assessment: the update of the cognitive_assessments row
CompleteSession(w) ==
    /\ calls[w].pc = "complete"
    /\ assessments' = CompleteAssessment(assessments, calls[w].assessment_id,
                                         calls[w].plan.theta_after,
                                         calls[w].plan.stopping_reason[1])
    /\ completions' = [completions EXCEPT ![calls[w].assessment_id] = @ + 1]
    /\ calls' = [calls EXCEPT ![w].pc = "read_profile"]
    /\ UNCHANGED <<responses, profiles, ret, offered, offScript>>

\* _update_cognitive_profile: the select on cognitive_profiles, and the
\* branch taken on its result
ReadProfile(w) ==
    /\ calls[w].pc = "read_profile"
    /\ calls' = [calls EXCEPT ![w].pc =
                     IF HasProfile(profiles,
                                   assessments[calls[w].assessment_id].child_id)
                     THEN "update_profile" ELSE "insert_profile"]
    /\ UNCHANGED <<tables, ret, offered, completions, offScript>>

\* _update_cognitive_profile: the update or the insert the branch makes
WriteProfile(w) ==
    /\ calls[w].pc \in {"update_profile", "insert_profile"}
    /\ \E assessment \in {assessments[calls[w].assessment_id]} :
           profiles' =
               IF calls[w].pc = "update_profile"
               THEN UpdateProfileRows(profiles, assessment.child_id,
                                      assessment.domain,
                                      calls[w].plan.theta_after,
                                      Percentile(calls[w].plan.theta_after))
               ELSE InsertProfileRow(profiles, assessment.child_id,
                                     assessment.domain,
                                     calls[w].plan.theta_after,
                                     Percentile(calls[w].plan.theta_after))
    /\ calls' = [calls EXCEPT ![w].pc = "recalculate"]
    /\ UNCHANGED <<assessments, responses, ret, offered, completions, offScript>>

\* _recalculate_profile_aggregates, then the return
Recalculate(w) ==
    /\ calls[w].pc = "recalculate"
    /\ profiles' = RecalculateProfileAggregates(
                        profiles, assessments[calls[w].assessment_id].child_id)
    /\ Return(w)
    /\ UNCHANGED <<assessments, responses, completions, offScript>>

\* two workers serve the two sessions
NextRace ==
    \/ \E w \in Workers, assessment_id \in 1..MaxSessions :
           Take(w, assessment_id)
    \/ \E w \in Workers : Insert(w)
    \/ \E w \in Workers : Update(w)
    \/ \E w \in Workers : CompleteSession(w)
    \/ \E w \in Workers : ReadProfile(w)
    \/ \E w \in Workers : WriteProfile(w)
    \/ \E w \in Workers : Recalculate(w)

SpecRace == InitRace /\ [][NextRace]_vars

(* ---------------- the estimator, called on its own ---------------------- *)
\* item rows with a > 0 and 0 <= c < 1: steep and flat, very easy and very
\* hard, without and with guessing
EstimateItems ==
    {[discrimination |-> 2500, difficulty |-> 0 - 3 * Scale, guessing |-> 0],
     [discrimination |-> 2500, difficulty |-> 3 * Scale, guessing |-> 250],
     [discrimination |-> 500, difficulty |-> 0 - 3 * Scale, guessing |-> 250],
     [discrimination |-> 500, difficulty |-> 3 * Scale, guessing |-> 0]}

\* the response histories of a length: is_correct flags and item rows
Histories(n) == [1..n -> BOOLEAN] \X [1..n -> EstimateItems]

\* the prior_theta values of a call: the ends and the middle of the range
EstimatePriors == {0 - 3 * Scale, INITIAL_THETA, 3 * Scale}

\* _estimate_ability(responses, items, prior_theta) called once, before any
\* request is served; its result is what the caller sees
Estimate(all_responses, all_items, prior_theta) ==
    /\ ret = NoCall
    /\ \E estimate \in {EstimateAbility(all_responses, all_items, prior_theta)} :
           ret' = [NoCall EXCEPT !.op = "estimate", !.status = "ok",
                                 !.new_theta = estimate[1],
                                 !.new_se = estimate[2],
                                 !.item_sequence = Len(all_responses)]
    /\ UNCHANGED <<tables, offered, completions, offScript, calls>>

\* the endpoints, and the estimator on histories of its own
NextEstimate ==
    \/ Next
    \/ \E n \in 1..MaxHistory :
           \E history \in Histories(n), prior_theta \in EstimatePriors :
               Estimate(history[1], history[2], prior_theta)

SpecEstimate == Init /\ [][NextEstimate]_vars

(* ---------------- the Profile Aggregator, called on its own ------------- *)
\* the scores (abilities) _update_cognitive_profile is called with
ProfileScores == {0 - 1000, 0, 1000, 1500, 2000}

\* the child whose profile is updated
ProfileChild == Children[1].id

\* _update_cognitive_profile(child_id, domain, score, percentile), with the
\* percentile _complete_assessment computes from the score
UpdateProfile(child_id, domain, score) ==
    /\ profiles' = UpdateCognitiveProfile(profiles, child_id, domain, score,
                                          Percentile(score))
    /\ UNCHANGED <<assessments, responses, ret, offered, completions,
                   offScript, calls>>

NextProfile ==
    \E domain \in DomainSet, score \in ProfileScores :
        UpdateProfile(ProfileChild, domain, score)

SpecProfile == Init /\ [][NextProfile]_vars

(* ---------------- properties ------------------------------------------- *)
\* the ResponseRecords of a session, in insertion order
RecordsOf(assessment_id) ==
    SelectSeq(responses, LAMBDA r : r.assessment_id = assessment_id)

\* the item ids of a session's ResponseRecords
ItemsOf(assessment_id) ==
    [i \in 1..Len(RecordsOf(assessment_id)) |-> RecordsOf(assessment_id)[i].item_id]

Sessions == 1..Len(assessments)

\* the last call was a submitResponse that returned a result
Submitted == ret.op = "submit" /\ ret.status = "ok"

\* the step is a submitResponse call on session a (ret' is its outcome)
SubmitOn(a) == ret'.op = "submit" /\ ret'.assessment_id = a

\* the session the last call was about was in progress when the call began:
\* its completion step ran in this call or never
InProgressBefore ==
    completions[ret.assessment_id] = IF ret.is_complete THEN 1 ELSE 0

\* C1: a submitResponse for an item the in-progress session already has a
\* record of is rejected with ValidationError, and leaves the session's
\* itemsAdministered, theta, se and records as they were
C1_DuplicateItemRejected ==
    [][\A a \in Sessions :
          (/\ assessments[a].status = "in_progress"
           /\ SubmitOn(a)
           /\ InSeq(ret'.item_id, ItemsOf(a)))
          => (/\ ret'.status = "ValidationError"
              /\ assessments' = assessments
              /\ responses' = responses)]_vars

\* C2: a submitResponse on a session that is not in progress fails with
\* InvalidState, appends no record and changes no field of the session or of
\* the child's profile
C2_SubmitOnCompletedRejected ==
    [][\A a \in Sessions :
          (assessments[a].status # "in_progress" /\ SubmitOn(a))
          => (ret'.status = "InvalidState" /\ UNCHANGED tables)]_vars

\* C3: once a session is completed it stays completed, and its completion
\* step (stopping_reason, raw_score, percentile, profile update) does not run
\* a second time
C3_CompletedOnce ==
    [][\A a \in Sessions :
          assessments[a].status = "completed"
          => (/\ assessments'[a].status = "completed"
              /\ completions'[a] = completions[a])]_vars

\* C4: after any sequence of completed calls, every session's
\* items_administered is the number of its ResponseRecords
C4_ItemsAdministeredIsRecordCount ==
    \A a \in Sessions : assessments[a].items_administered = Len(RecordsOf(a))

\* a submission has just brought a session to three records
C4_Witness ==
    /\ Submitted
    /\ ret.item_sequence = 3
    /\ Len(RecordsOf(ret.assessment_id)) = 3
    /\ assessments[ret.assessment_id].items_administered = 3

\* C5: no item id appears in two ResponseRecords of one session
C5_NoItemTwice ==
    \A a \in Sessions :
        \A i, j \in 1..Len(RecordsOf(a)) :
            i # j => RecordsOf(a)[i].item_id # RecordsOf(a)[j].item_id

\* C6: whenever no submission is in flight, however the reads and writes of
\* the submissions were interleaved, the records of a session have distinct
\* item_sequence values and items_administered is the number of records
C6_SubmissionsSerialized ==
    AllIdle =>
        \A a \in Sessions :
            /\ \A i, j \in 1..Len(RecordsOf(a)) :
                   i # j => RecordsOf(a)[i].item_sequence
                                # RecordsOf(a)[j].item_sequence
            /\ assessments[a].items_administered = Len(RecordsOf(a))

\* C7: whenever no submission is in flight, storage failures or not, every
\* ResponseRecord is paired with the session update of its call: the last
\* record of a session carries the session's theta, se and items_administered
C7_AtomicFailure ==
    AllIdle =>
        \A a \in Sessions :
            \A i \in 1..Len(RecordsOf(a)) :
                /\ RecordsOf(a)[i].item_sequence <= assessments[a].items_administered
                /\ i = Len(RecordsOf(a)) =>
                       /\ assessments[a].items_administered
                              = RecordsOf(a)[i].item_sequence
                       /\ assessments[a].ability_estimate = RecordsOf(a)[i].theta_after
                       /\ assessments[a].standard_error = RecordsOf(a)[i].se_after

\* C8: a submitResponse that brings itemsAdministered to 30 or more completes
\* the session with stopping_reason max_items, whatever se is and whether or
\* not unused eligible items remain
C8_MaxItemsFirst ==
    (Submitted /\ assessments[ret.assessment_id].items_administered >= 30)
    => (/\ ret.is_complete
        /\ ret.stopping_reason = Some("max_items")
        /\ assessments[ret.assessment_id].status = "completed"
        /\ assessments[ret.assessment_id].stopping_reason = Some("max_items"))

\* the 30th answer of a session is in, se is below 0.3 and an unused
\* eligible item remains
C8_Witness ==
    /\ Submitted
    /\ ret.item_sequence = 30
    /\ ret.new_se < 300
    /\ ret.stopping_reason = Some("max_items")
    /\ Candidates(AgeMonths(ChildRows(assessments[ret.assessment_id].child_id)[1]),
                  assessments[ret.assessment_id].domain,
                  ItemsOf(ret.assessment_id)) # << >>

\* C9: a submitResponse that leaves 10 <= itemsAdministered < 30 and se < 0.3
\* completes the session with stopping_reason min_se; and a submitResponse
\* that stops with min_se leaves itemsAdministered >= 10 and se < 0.3
C9_MinSeSecond ==
    Submitted =>
        /\ (/\ assessments[ret.assessment_id].items_administered >= 10
            /\ assessments[ret.assessment_id].items_administered < 30
            /\ assessments[ret.assessment_id].standard_error < 300)
           => (/\ ret.is_complete
               /\ ret.stopping_reason = Some("min_se")
               /\ assessments[ret.assessment_id].status = "completed"
               /\ assessments[ret.assessment_id].stopping_reason = Some("min_se"))
        /\ ret.stopping_reason = Some("min_se")
           => (/\ assessments[ret.assessment_id].items_administered >= 10
               /\ assessments[ret.assessment_id].standard_error < 300)

\* the tenth answer stops a session with min_se, after an earlier answer had
\* already brought se below 0.3 without stopping it
C9_Witness ==
    /\ Submitted
    /\ ret.item_sequence = 10
    /\ ret.stopping_reason = Some("min_se")
    /\ assessments[ret.assessment_id].status = "completed"
    /\ \E i \in 1..Len(RecordsOf(ret.assessment_id)) :
           /\ RecordsOf(ret.assessment_id)[i].item_sequence < 10
           /\ RecordsOf(ret.assessment_id)[i].se_after < 300

\* C10: when a submitResponse on a session in progress meets neither
\* max_items nor min_se, the Item Selector is asked with the item ids of all
\* the session's records, the one just answered included; if it returns none
\* the session is completed with no_items, otherwise the session stays in
\* progress and the selector's item is the nextItem
C10_NoItemsThird ==
    (/\ Submitted
     /\ InProgressBefore
     /\ assessments[ret.assessment_id].items_administered < 30
     /\ ~(/\ assessments[ret.assessment_id].items_administered >= 10
          /\ assessments[ret.assessment_id].standard_error < 300))
    => \E selection \in
           {SelectNextItem(
                assessments[ret.assessment_id].ability_estimate,
                AgeMonths(ChildRows(assessments[ret.assessment_id].child_id)[1]),
                assessments[ret.assessment_id].domain,
                ItemsOf(ret.assessment_id))} :
          IF selection = None
          THEN /\ ret.is_complete
               /\ ret.next_item = None
               /\ ret.stopping_reason = Some("no_items")
               /\ assessments[ret.assessment_id].status = "completed"
               /\ assessments[ret.assessment_id].stopping_reason = Some("no_items")
          ELSE /\ ~ret.is_complete
               /\ ret.next_item = Some(selection[1].id)
               /\ ret.stopping_reason = None
               /\ assessments[ret.assessment_id].status = "in_progress"

\* the third answer of a session leaves the selector nothing to offer: the
\* answers before it continued with a next item, this one stops with no_items
C10_Witness ==
    /\ Submitted
    /\ InProgressBefore
    /\ ret.item_sequence = 3
    /\ ret.stopping_reason = Some("no_items")
    /\ ret.next_item = None
    /\ assessments[ret.assessment_id].status = "completed"

\* abilities at which the selector is asked, beside the sessions' own
ThetaGrid == {0 - 3 * Scale, 0, 3 * Scale}

\* the age in months of the child of session a
AgeOf(a) == AgeMonths(ChildRows(assessments[a].child_id)[1])

\* C11: the Item Selector never returns an item whose id is among the used
\* ids, whatever the ability, and also when the item comes from the query
\* widened by six months; so the item a session is offered is never one the
\* session has a record of
C11_NeverOffersUsedItem ==
    \A a \in Sessions :
        /\ offered[a] # None => ~InSeq(offered[a][1], ItemsOf(a))
        /\ \A theta \in ThetaGrid \cup {assessments[a].ability_estimate} :
               \E selection \in {SelectNextItem(theta, AgeOf(a),
                                                assessments[a].domain,
                                                ItemsOf(a))} :
                   selection # None => ~InSeq(selection[1].id, ItemsOf(a))

\* the next item of a session comes from the widened query: every item of
\* the exact age window is used, and the widened window holds used items too
C11_Witness ==
    /\ Submitted
    /\ ret.next_item # None
    /\ ItemsOf(ret.assessment_id) # << >>
    /\ Unused(QueryItems(assessments[ret.assessment_id].domain,
                         AgeOf(ret.assessment_id), 0),
              ItemsOf(ret.assessment_id)) = << >>
    /\ \E i \in 1..Len(QueryItems(assessments[ret.assessment_id].domain,
                                  AgeOf(ret.assessment_id), AgeWindow)) :
           InSeq(QueryItems(assessments[ret.assessment_id].domain,
                            AgeOf(ret.assessment_id), AgeWindow)[i].id,
                 ItemsOf(ret.assessment_id))

\* the information of each candidate at theta
InformationOf(items, theta) ==
    [i \in 1..Len(items) |->
        ItemInformation(theta, items[i].discrimination, items[i].difficulty,
                        items[i].guessing)]

\* item is the first of the candidates whose information is maximal
FirstOfMaximal(item, items, infos) ==
    \E i \in 1..Len(items) :
        /\ items[i] = item
        /\ \A j \in 1..Len(items) : infos[j] <= infos[i]
        /\ \A j \in 1..(i - 1) : infos[j] < infos[i]

\* the selector's answer for session a at theta is the first candidate of
\* maximal information
SelectsFirstOfMaximal(a, theta) ==
    \E items \in {Candidates(AgeOf(a), assessments[a].domain, ItemsOf(a))} :
        items # << >> =>
            \E selection \in {SelectNextItem(theta, AgeOf(a),
                                             assessments[a].domain, ItemsOf(a))} :
                /\ selection # None
                /\ FirstOfMaximal(selection[1], items,
                                  InformationOf(items, theta))

\* C12: when there are candidates, the Item Selector returns one whose
\* information at theta is maximal over the candidates and, among those of
\* maximal information, the first in the order of the candidate list; the
\* item a call offers is that one
C12_MaximalInformationFirstWins ==
    /\ \A a \in Sessions :
           \A theta \in ThetaGrid \cup {assessments[a].ability_estimate} :
               SelectsFirstOfMaximal(a, theta)
    /\ (ret.status = "ok" /\ ret.next_item # None) =>
           \E items \in {Candidates(AgeOf(ret.assessment_id),
                                    assessments[ret.assessment_id].domain,
                                    ItemsOf(ret.assessment_id))} :
               FirstOfMaximal(Bank[ret.next_item[1]], items,
                              InformationOf(items,
                                  assessments[ret.assessment_id].ability_estimate))

\* one session is offered the first of several candidates of equal, maximal
\* information; for another the selector, asked at theta = -3, returns a
\* candidate that is not the first of the list
C12_Witness ==
    /\ \E a \in Sessions :
           \E items \in {Candidates(AgeOf(a), assessments[a].domain, ItemsOf(a))} :
               /\ Len(items) >= 2
               /\ offered[a] = Some(items[1].id)
               /\ \E infos \in {InformationOf(items,
                                              assessments[a].ability_estimate)} :
                      \A j \in 1..Len(items) : infos[j] = infos[1]
    /\ \E b \in Sessions :
           \E items \in {Candidates(AgeOf(b), assessments[b].domain, ItemsOf(b))} :
               /\ Len(items) >= 2
               /\ SelectNextItem(0 - 3 * Scale, AgeOf(b), assessments[b].domain,
                                 ItemsOf(b)) = Some(items[2])

\* C13: a call that fails with NotFound (startAssessment for an unknown
\* child, submitResponse for an unknown assessment or an unknown item) writes
\* nothing: no session is created, no ResponseRecord appended, no session or
\* profile updated
C13_NotFoundChangesNothing ==
    [][ret'.status = "NotFound"
       => UNCHANGED <<tables, offered, completions>>]_vars

\* a submitResponse for an unknown item has failed on a session that has
\* ResponseRecords
C13_Witness ==
    /\ ret.op = "submit"
    /\ ret.status = "NotFound"
    /\ ret.item_id = UnknownItem
    /\ ret.assessment_id \in Sessions
    /\ RecordsOf(ret.assessment_id) # << >>

\* C14: a session startAssessment has just created has theta = 0.0,
\* se = 1.0, itemsAdministered = 0, status in_progress and no
\* ResponseRecord, and its first item is the selector's choice at theta 0.0
\* with no used item: none when the child's age and the domain leave no
\* candidate, else the first candidate of maximal information at 0.0
C14_SessionStartsFresh ==
    (ret.op = "start" /\ ret.status = "ok") =>
        /\ ret.assessment_id = Len(assessments)
        /\ assessments[ret.assessment_id].ability_estimate = 0
        /\ assessments[ret.assessment_id].standard_error = Scale
        /\ assessments[ret.assessment_id].items_administered = 0
        /\ assessments[ret.assessment_id].status = "in_progress"
        /\ RecordsOf(ret.assessment_id) = << >>
        /\ offered[ret.assessment_id] = ret.next_item
        /\ \E items \in {Candidates(AgeOf(ret.assessment_id),
                                    assessments[ret.assessment_id].domain,
                                    << >>)} :
               IF items = << >> THEN ret.next_item = None
               ELSE /\ ret.next_item # None
                    /\ FirstOfMaximal(Bank[ret.next_item[1]], items,
                                      InformationOf(items, 0))

\* a second session has just been started and offered a first item, while
\* the first session has ResponseRecords
C14_Witness ==
    /\ ret.op = "start"
    /\ ret.status = "ok"
    /\ ret.assessment_id = 2
    /\ ret.next_item # None
    /\ RecordsOf(1) # << >>

\* session a is as startAssessment left it when it had no item to offer: in
\* progress, without a ResponseRecord and without an offered item
Dangling(a) ==
    /\ assessments[a].status = "in_progress"
    /\ offered[a] = None
    /\ RecordsOf(a) = << >>

\* C15: a session created with firstItem = none never receives a response and
\* never completes: whatever is called afterwards, it keeps zero
\* ResponseRecords and the status in_progress
C15_DanglingSessionStaysEmpty ==
    [][\A a \in Sessions : Dangling(a) => Dangling(a)']_vars

\* C16: a session that was offered a first item and whose client answers
\* every item it is offered is eventually completed, with stopping_reason
\* max_items, min_se or no_items, and never has more than 30 ResponseRecords
C16_AnsweredSessionCompletes ==
    /\ [](\A a \in Sessions : Len(RecordsOf(a)) <= 30)
    /\ \A a \in 1..MaxSessions :
           (a \in Sessions /\ offered[a] # None)
           ~> (/\ a \in Sessions
               /\ assessments[a].status = "completed"
               /\ assessments[a].stopping_reason
                      \in {Some("max_items"), Some("min_se"), Some("no_items")})

\* a session whose client gave one incorrect answer is completed by its 30th
\* answer
C16_Witness ==
    /\ Submitted
    /\ ret.is_complete
    /\ Len(RecordsOf(ret.assessment_id)) = 30
    /\ assessments[ret.assessment_id].status = "completed"
    /\ \E i \in 1..30 : ~RecordsOf(ret.assessment_id)[i].is_correct

\* C17: a list response is correct exactly when the correct answer is a list
\* too and each holds every element of the other; a list response to a
\* scalar answer is incorrect; a scalar response is correct exactly when it
\* equals the correct answer. The result and the stored record carry that
\* verdict
C17_ResponseCorrectness ==
    Submitted =>
        \E response \in {ret.response},
           correct_answer \in {Bank[ret.item_id].correct_answer} :
            /\ ret.is_correct =
                   IF response.is_list
                   THEN /\ correct_answer.is_list
                        /\ \A i \in 1..Len(response.list) :
                               InSeq(response.list[i], correct_answer.list)
                        /\ \A j \in 1..Len(correct_answer.list) :
                               InSeq(correct_answer.list[j], response.list)
                   ELSE /\ ~correct_answer.is_list
                        /\ response.scalar = correct_answer.scalar
            /\ responses[Len(responses)].is_correct = ret.is_correct

\* a list response that differs from the list answer in order and by a
\* duplicate has been judged correct
C17_Witness ==
    /\ Submitted
    /\ ret.response.is_list
    /\ Bank[ret.item_id].correct_answer.is_list
    /\ ret.response.list # Bank[ret.item_id].correct_answer.list
    /\ Len(ret.response.list) > Len(Bank[ret.item_id].correct_answer.list)
    /\ ret.is_correct

\* the domains of a profile that have a score
Scored(profile) == {d \in DomainSet : profile.score[d] # None}

\* the sum of the scores of a profile
TotalScore(profile) ==
    LET s(d) == IF profile.score[d] = None THEN 0 ELSE profile.score[d][1]
    IN s("math") + s("logic") + s("verbal") + s("spatial") + s("memory")

\* d comes before e when the scored domains are listed by score, highest
\* first, domains of equal score in the order math, logic, verbal, spatial,
\* memory
Outranks(profile, d, e) ==
    \/ profile.score[d][1] > profile.score[e][1]
    \/ /\ profile.score[d][1] = profile.score[e][1]
       /\ \E i, j \in 1..Len(Domains) : i < j /\ Domains[i] = d /\ Domains[j] = e

\* the number of scored domains that come before d in that list
RankOf(profile, d) ==
    Cardinality({e \in Scored(profile) : Outranks(profile, e, d)})

\* list holds exactly the domains of the set, each once, in the order of the
\* ranks
ListsByRank(list, set, profile) ==
    /\ SeqToSet(list) = set
    /\ Len(list) = Cardinality(set)
    /\ \A i, j \in 1..Len(list) :
           i < j => Outranks(profile, list[i], list[j])

\* C18: in every profile the aggregator has written, if at least two domains
\* have a score then strengths is the list of the domains among the top two
\* by score whose score is above 0, and growth_areas the list of the domains
\* among the bottom two by score whose score is strictly below the mean of
\* the scores; with fewer than two scored domains both lists are empty. With
\* the scores math 2.0, logic 1.5, verbal 1.0 (the proportions of 80, 60,
\* 40) the composite is 1.5, strengths is [math, logic] and growth_areas is
\* [verbal]
C18_StrengthsAndGrowthAreas ==
    \A i \in 1..Len(profiles) :
        \E profile \in {profiles[i]} :
            /\ Cardinality(Scored(profile)) >= 2 =>
                   /\ ListsByRank(profile.strengths,
                                  {d \in Scored(profile) :
                                       /\ RankOf(profile, d) < 2
                                       /\ profile.score[d][1] > 0},
                                  profile)
                   /\ ListsByRank(profile.growth_areas,
                                  {d \in Scored(profile) :
                                       /\ RankOf(profile, d)
                                              >= Cardinality(Scored(profile)) - 2
                                       /\ profile.score[d][1]
                                              * Cardinality(Scored(profile))
                                              < TotalScore(profile)},
                                  profile)
            /\ Cardinality(Scored(profile)) < 2 =>
                   /\ profile.strengths = << >>
                   /\ profile.growth_areas = << >>
            /\ (/\ Scored(profile) = {"math", "logic", "verbal"}
                /\ profile.score["math"] = Some(2000)
                /\ profile.score["logic"] = Some(1500)
                /\ profile.score["verbal"] = Some(1000)) =>
                   /\ profile.composite_score = Some(1500)
                   /\ profile.strengths = <<"math", "logic">>
                   /\ profile.growth_areas = <<"verbal">>

\* the profile of the example: math 2.0, logic 1.5, verbal 1.0, composite 1.5
C18_Witness ==
    \E i \in 1..Len(profiles) :
        /\ Scored(profiles[i]) = {"math", "logic", "verbal"}
        /\ profiles[i].score["math"] = Some(2000)
        /\ profiles[i].score["logic"] = Some(1500)
        /\ profiles[i].score["verbal"] = Some(1000)
        /\ profiles[i].composite_score = Some(1500)
        /\ profiles[i].strengths = <<"math", "logic">>
        /\ profiles[i].growth_areas = <<"verbal">>

\* the scored domains of a profile whose score equals the mean of the scores
AtComposite(profile) ==
    {d \in Scored(profile) :
         profile.score[d][1] * Cardinality(Scored(profile))
             = TotalScore(profile)}

\* C19 (as stated): in every recomputed profile a domain whose score equals
\* the composite score is neither in strengths nor in growth_areas
C19_AtCompositeInNeitherList ==
    \A i \in 1..Len(profiles) :
        \A d \in AtComposite(profiles[i]) :
            /\ ~InSeq(d, profiles[i].strengths)
            /\ ~InSeq(d, profiles[i].growth_areas)

\* C19 (amended): in every recomputed profile a domain whose score equals the
\* composite score is never in growth_areas; it is in strengths exactly when
\* at least two domains have a score, it is among the top two by score and
\* its score is above 0
C19_AtCompositeNeverGrowthArea ==
    \A i \in 1..Len(profiles) :
        \A d \in AtComposite(profiles[i]) :
            /\ ~InSeq(d, profiles[i].growth_areas)
            /\ InSeq(d, profiles[i].strengths) <=>
                   /\ Cardinality(Scored(profiles[i])) >= 2
                   /\ RankOf(profiles[i], d) < 2
                   /\ profiles[i].score[d][1] > 0

\* a profile in which one domain at the composite is a strength and another
\* one at the composite is among the bottom two and is in neither list, next
\* to a domain that is a growth area
C19_Witness ==
    \E i \in 1..Len(profiles) :
        \E d, e \in AtComposite(profiles[i]) :
            /\ InSeq(d, profiles[i].strengths)
            /\ RankOf(profiles[i], e) >= Cardinality(Scored(profiles[i])) - 2
            /\ ~InSeq(e, profiles[i].strengths)
            /\ ~InSeq(e, profiles[i].growth_areas)
            /\ profiles[i].growth_areas # << >>

\* C20: in every state there is at most one profile per child, and a child
\* has a profile only once one of its sessions is completed
C20_OneProfilePerChild ==
    /\ \A i, j \in 1..Len(profiles) :
           profiles[i].child_id = profiles[j].child_id => i = j
    /\ \A i \in 1..Len(profiles) :
           \E a \in 1..Len(assessments) :
               /\ assessments[a].child_id = profiles[i].child_id
               /\ assessments[a].status = "completed"

\* theta is in [-3, 3] and se in (0, 1]
InRange(theta, se) ==
    /\ 0 - 3 * Scale <= theta
    /\ theta <= 3 * Scale
    /\ 0 < se
    /\ se <= Scale

\* C21: in every state the theta of each session lies in [-3, 3] and its se
\* is above 0 and at most 1.0, and so do the theta and se recorded before and
\* after every response and those of every result of the estimator
C21_ThetaAndSeInRange ==
    /\ \A a \in 1..Len(assessments) :
           InRange(assessments[a].ability_estimate,
                   assessments[a].standard_error)
    /\ \A i \in 1..Len(responses) :
           /\ InRange(responses[i].theta_before, responses[i].se_before)
           /\ InRange(responses[i].theta_after, responses[i].se_after)
    /\ InRange(ret.new_theta, ret.new_se)

\* an estimate over several responses that was clamped at -3, with an se
\* strictly between 0 and 1
C21_Witness ==
    /\ ret.op = "estimate"
    /\ ret.item_sequence >= 2
    /\ ret.new_theta = 0 - 3 * Scale
    /\ ret.new_se > 0
    /\ ret.new_se < Scale

\* raw_score is (theta + 3) / 6 * 100, to the thousandth
IsRawScoreOf(raw_score, theta) ==
    /\ raw_score * 6 - (theta + 3 * Scale) * 100 <= 3
    /\ (theta + 3 * Scale) * 100 - raw_score * 6 <= 3

\* the fields _complete_assessment sets are unset in the row
CompletionUnset(assessment) ==
    /\ assessment.stopping_reason = None
    /\ assessment.raw_score = None
    /\ assessment.percentile = None

\* whenever no call is being served, a session in progress has none of the
\* three fields, and a completed session has a stopping_reason among
\* max_items, min_se and no_items and the raw_score (theta + 3) / 6 * 100 of
\* its theta, within [0, 100]
CompletionFieldsConsistent ==
    AllIdle =>
    \A a \in 1..Len(assessments) :
        /\ assessments[a].status \in {"in_progress", "completed"}
        /\ assessments[a].status = "in_progress" =>
               CompletionUnset(assessments[a])
        /\ assessments[a].status = "completed" =>
               /\ assessments[a].stopping_reason \in
                      {Some("max_items"), Some("min_se"), Some("no_items")}
               /\ assessments[a].raw_score # None
               /\ IsRawScoreOf(assessments[a].raw_score[1],
                               assessments[a].ability_estimate)
               /\ assessments[a].raw_score[1] >= 0
               /\ assessments[a].raw_score[1] <= 100 * Scale

\* a step writes stopping_reason, raw_score or percentile of a session only
\* when it takes the session from in progress to completed
SetOnlyOnCompletion ==
    \A a \in 1..Len(assessments) :
        (\/ assessments'[a].stopping_reason # assessments[a].stopping_reason
         \/ assessments'[a].raw_score # assessments[a].raw_score
         \/ assessments'[a].percentile # assessments[a].percentile) =>
            /\ assessments[a].status = "in_progress"
            /\ assessments'[a].status = "completed"

\* C22: while a session is in progress its stopping_reason, raw_score and
\* percentile are unset; they are set only by the transition to completed;
\* and a completed session has a stopping_reason among max_items, min_se and
\* no_items with raw_score = (theta + 3) / 6 * 100 in [0, 100]
C22_CompletionFields ==
    /\ []CompletionFieldsConsistent
    /\ [][SetOnlyOnCompletion]_vars

\* the fields of a session the claim of independence is about
SessionState(assessment) ==
    <<assessment.ability_estimate, assessment.standard_error,
      assessment.items_administered, assessment.status,
      assessment.stopping_reason>>

\* C23: a startAssessment or submitResponse call leaves the theta, se,
\* items_administered, status, stopping_reason and ResponseRecords of every
\* session other than the one it is made on as they were
C23_SessionsIndependent ==
    [][\A b \in Sessions :
          b # ret'.assessment_id =>
              /\ SessionState(assessments'[b]) = SessionState(assessments[b])
              /\ RecordsOf(b)' = RecordsOf(b)]_vars

\* a response was just recorded in a session while another session of the
\* same child and domain has records of its own
C23_Witness ==
    /\ Submitted
    /\ \E a, b \in Sessions :
           /\ a = ret.assessment_id
           /\ b # a
           /\ assessments[a].child_id = assessments[b].child_id
           /\ assessments[a].domain = assessments[b].domain
           /\ Len(RecordsOf(a)) >= 2
           /\ Len(RecordsOf(b)) >= 2
           /\ SessionState(assessments[a]) # SessionState(assessments[b])

\* the k-th ResponseRecord of every session, in append order, has
\* item_sequence k
SequencedFromOne ==
    \A a \in Sessions :
        \A k \in 1..Len(RecordsOf(a)) : RecordsOf(a)[k].item_sequence = k

\* a step keeps the ResponseRecords of every session as they are and adds at
\* most one, whose item_sequence is the session's items_administered before
\* the step plus 1
AppendsNextInSequence ==
    \A a \in Sessions :
        \/ RecordsOf(a)' = RecordsOf(a)
        \/ /\ Len(RecordsOf(a)') = Len(RecordsOf(a)) + 1
           /\ SubSeq(RecordsOf(a)', 1, Len(RecordsOf(a))) = RecordsOf(a)
           /\ RecordsOf(a)'[Len(RecordsOf(a)')].item_sequence
                  = assessments[a].items_administered + 1

\* C24: within a session the item_sequence values of the ResponseRecords are
\* 1, 2, 3, ... in append order (1-based, strictly increasing, unique); an
\* accepted response gets the items_administered before the call plus 1; and
\* records are never modified or removed
C24_ItemSequence ==
    /\ []SequencedFromOne
    /\ [][AppendsNextInSequence]_vars

\* the ids of the active items of the domain of session a that the session
\* has no record of and whose eligibility window, widened by widen months at
\* each end, contains the child's age
EligibleUnused(a, widen) ==
    {i \in ItemIds :
        /\ Bank[i].domain = assessments[a].domain
        /\ Bank[i].active
        /\ Bank[i].min_age_months - widen <= AgeOf(a)
        /\ AgeOf(a) <= Bank[i].max_age_months + widen
        /\ ~InSeq(i, ItemsOf(a))}

\* the selector's answer for session a at theta: none exactly when no item is
\* eligible, exactly or widened; otherwise an item eligible exactly if there
\* is one, and else one eligible under the widened window
SelectsInWindow(a, theta) ==
    \E selection \in {SelectNextItem(theta, AgeOf(a), assessments[a].domain,
                                     ItemsOf(a))} :
        /\ selection = None <=>
               EligibleUnused(a, 0) = {} /\ EligibleUnused(a, AgeWindow) = {}
        /\ selection # None =>
               /\ selection[1] = Bank[selection[1].id]
               /\ selection[1].active
               /\ selection[1].domain = assessments[a].domain
               /\ IF EligibleUnused(a, 0) # {}
                  THEN selection[1].id \in EligibleUnused(a, 0)
                  ELSE selection[1].id \in EligibleUnused(a, AgeWindow)

\* C25: the Item Selector uses the window widened by six months only when no
\* unused active item of the domain has a window that contains the age: if
\* there is such an item the returned item's window contains the age, also
\* when an item eligible only under the widened window has more information;
\* it returns none exactly when the exact and the widened candidates are both
\* empty; and every returned item is active and of the requested domain
C25_WidenedOnlyWhenExactEmpty ==
    \A a \in Sessions :
        \A theta \in ThetaGrid \cup {assessments[a].ability_estimate} :
            SelectsInWindow(a, theta)

\* a session is offered an item whose window contains the child's age while
\* an unused item eligible only under the widened window has more
\* information at the session's theta
C25_Witness ==
    \E a \in Sessions :
        /\ offered[a] # None
        /\ offered[a][1] \in EligibleUnused(a, 0)
        /\ \E j \in EligibleUnused(a, AgeWindow) \ EligibleUnused(a, 0) :
               ItemInformation(assessments[a].ability_estimate,
                               Bank[j].discrimination, Bank[j].difficulty,
                               Bank[j].guessing)
                   > ItemInformation(assessments[a].ability_estimate,
                                     Bank[offered[a][1]].discrimination,
                                     Bank[offered[a][1]].difficulty,
                                     Bank[offered[a][1]].guessing)

\* a step that changes cognitive_profiles for the completion of a session of
\* child_id in domain: the profiles of other children stay as they are, the
\* child's profile keeps the score and percentile of every other domain, and
\* a profile it adds is the child's and has no other domain
OnlyDomainOfChild(child_id, domain) ==
    /\ Len(profiles') >= Len(profiles)
    /\ \A i \in 1..Len(profiles) :
           /\ profiles'[i].child_id = profiles[i].child_id
           /\ profiles[i].child_id # child_id => profiles'[i] = profiles[i]
           /\ \A d \in DomainSet \ {domain} :
                  /\ profiles'[i].score[d] = profiles[i].score[d]
                  /\ profiles'[i].percentile[d] = profiles[i].percentile[d]
    /\ \A i \in (Len(profiles) + 1)..Len(profiles') :
           /\ profiles'[i].child_id = child_id
           /\ \A d \in DomainSet \ {domain} :
                  /\ profiles'[i].score[d] = None
                  /\ profiles'[i].percentile[d] = None

\* C26: the profile update made when a session completes changes only the
\* score and percentile of the session's domain and the aggregates in the
\* profile of the session's child: the score and percentile of every other
\* domain and the profiles of all other children are unchanged
C26_ProfileUpdateFrame ==
    [][profiles' # profiles =>
          /\ ret'.op = "submit"
          /\ ret'.assessment_id \in Sessions
          /\ OnlyDomainOfChild(assessments[ret'.assessment_id].child_id,
                               assessments[ret'.assessment_id].domain)]_vars

\* a completion has just updated a profile that holds the score of another
\* domain and changed aggregates
C26_Witness ==
    /\ Submitted
    /\ ret.is_complete
    /\ \E i \in 1..Len(profiles) :
           /\ profiles[i].child_id = assessments[ret.assessment_id].child_id
           /\ profiles[i].score[assessments[ret.assessment_id].domain]
                  = Some(ret.new_theta)
           /\ \E d \in DomainSet \ {assessments[ret.assessment_id].domain} :
                  profiles[i].score[d] # None
           /\ profiles[i].strengths # << >>

\* C27: in every result of an accepted submitResponse, is_complete is true
\* exactly when next_item is none; the session is then completed, and
\* otherwise it is offered the next item of the result
C27_CompleteIffNoNextItem ==
    Submitted =>
        /\ ret.is_complete <=> ret.next_item = None
        /\ ret.is_complete <=> ret.stopping_reason # None
        /\ ret.is_complete => assessments[ret.assessment_id].status = "completed"
        /\ offered[ret.assessment_id] = ret.next_item

\* a submission stopped a session on a stopping rule, with no next item in
\* the result, while the selector still has an item for the session
C27_Witness ==
    /\ Submitted
    /\ ret.is_complete
    /\ ret.next_item = None
    /\ ret.stopping_reason \in {Some("max_items"), Some("min_se")}
    /\ SelectNextItem(ret.new_theta, AgeOf(ret.assessment_id),
                      assessments[ret.assessment_id].domain,
                      ItemsOf(ret.assessment_id)) # None

\* C28: in every state the items_administered of each session, and the
\* number of its ResponseRecords, is at most MAX_ITEMS, whatever calls
\* clients make
C28_AtMostMaxItems ==
    \A a \in Sessions :
        /\ assessments[a].items_administered <= MAX_ITEMS
        /\ Len(RecordsOf(a)) <= MAX_ITEMS

\* no domain of the profile is both a strength and a growth area
ListsDisjoint(profile) ==
    SeqToSet(profile.strengths) \cap SeqToSet(profile.growth_areas) = {}

\* C29 (as stated): in every recomputed profile with two to five scored
\* domains, strengths and growth_areas are disjoint
C29_StrengthsGrowthDisjoint ==
    \A i \in 1..Len(profiles) :
        Cardinality(Scored(profiles[i])) >= 2 => ListsDisjoint(profiles[i])

\* C29 (amended): in every recomputed profile with four or five scored
\* domains, strengths and growth_areas are disjoint
C29_DisjointFromFourDomains ==
    \A i \in 1..Len(profiles) :
        Cardinality(Scored(profiles[i])) >= 4 => ListsDisjoint(profiles[i])

\* a profile with four scored domains in which the second highest score is
\* positive and below the composite, and both lists are filled
C29_Witness ==
    \E i \in 1..Len(profiles) :
        /\ Cardinality(Scored(profiles[i])) = 4
        /\ Len(profiles[i].strengths) = 2
        /\ profiles[i].growth_areas # << >>
        /\ \E d \in Scored(profiles[i]) :
               /\ RankOf(profiles[i], d) = 1
               /\ profiles[i].score[d][1] > 0
               /\ profiles[i].score[d][1] * 4 < TotalScore(profiles[i])

\* every ResponseRecord of a session is of an active item of the session's
\* own domain
RecordsOfOwnDomain ==
    \A a \in Sessions :
        \A i \in 1..Len(RecordsOf(a)) :
            /\ Bank[RecordsOf(a)[i].item_id].domain = assessments[a].domain
            /\ Bank[RecordsOf(a)[i].item_id].active

\* a ResponseRecord added to a session is of the item the session was last
\* offered, or of an item the session has a record of already
AppendsOfferedItem ==
    \A a \in Sessions :
        Len(RecordsOf(a)') > Len(RecordsOf(a))
            => RecordsOf(a)'[Len(RecordsOf(a)')].item_id
                   \in SeqToSet(offered[a]) \cup SeqToSet(ItemsOf(a))

\* C30: every ResponseRecord of a session references an item the session was
\* offered (its first item or a next item returned to it), hence an active
\* item of the session's own domain; submitResponse accepts no existing item
\* id that was never offered to the session
C30_RecordsOfOfferedItems ==
    /\ []RecordsOfOwnDomain
    /\ [][AppendsOfferedItem]_vars

====
